---- MODULE Spec2Model ----
(***************************************************************************)
(* Model of aws_deploy/ecs/helper.py: the EcsTaskDefinition setters and    *)
(* their change log (_diff), get_overrides, and                            *)
(* EcsClient.get_task_definition_filtered.                                 *)
(*                                                                         *)
(* Python strings on which the code does string work (images, tags,        *)
(* commands, role ARNs) are sequences of one-character strings.  Python    *)
(* dicts are sequences of <<key, value>> pairs with unique keys, in        *)
(* insertion order; dict equality ignores the order.                       *)
(***************************************************************************)
EXTENDS Integers, Sequences, FiniteSets, TLC

VARIABLES containers, role_arn, execution_role_arn, tags, tagsIsNone, _diff,
          last, remote, resolved,
          requires_attributes, additional_properties, diffed, sent,
          tasks, deployed

vars == <<containers, role_arn, execution_role_arn, tags, tagsIsNone, _diff,
          last, remote, resolved,
          requires_attributes, additional_properties, diffed, sent,
          tasks, deployed>>

tdVars == <<containers, role_arn, execution_role_arn, tags, tagsIsNone, _diff>>

\* ------------------------------------------------------------------ bounds
MaxLog == 2
MaxRemote == 3
MaxTasks == 2

\* ------------------------------------------------------- string primitives
EmptyStr == <<>>

Range(s) == {s[i] : i \in 1..Len(s)}

\* index of the last occurrence of character c in s, 0 when there is none
LastIndexOf(s, c) ==
    LET hits == {i \in 1..Len(s) : s[i] = c}
    IN  IF hits = {} THEN 0 ELSE CHOOSE i \in hits : \A j \in hits : j <= i

\* faulty variant of Strip: the tag is used as given
Strip_Identity(s) == s

\* str.strip(): drop leading and trailing blanks
Strip(s) ==
    LET keep == {i \in 1..Len(s) : s[i] # " "}
    IN  IF keep = {} THEN <<>>
        ELSE LET lo == CHOOSE i \in keep : \A j \in keep : i <= j
                 hi == CHOOSE i \in keep : \A j \in keep : j <= i
             IN  SubSeq(s, lo, hi)

\* str.rsplit(':', 1)[0]
RsplitHead(s, c) ==
    LET k == LastIndexOf(s, c)
    IN  IF k = 0 THEN s ELSE SubSeq(s, 1, k - 1)

\* str.rsplit(':', 1)[1]; only evaluated when c occurs in s
RsplitTail(s, c) == SubSeq(s, LastIndexOf(s, c) + 1, Len(s))

\* str.split(): whitespace tokenisation
RECURSIVE SplitFrom(_, _, _, _)
SplitFrom(s, i, cur, acc) ==
    IF i > Len(s)
    THEN IF cur = <<>> THEN acc ELSE Append(acc, cur)
    ELSE IF s[i] = " "
         THEN SplitFrom(s, i + 1, <<>>, IF cur = <<>> THEN acc ELSE Append(acc, cur))
         ELSE SplitFrom(s, i + 1, Append(cur, s[i]), acc)

Split(s) == SplitFrom(s, 1, <<>>, <<>>)

\* JSON_LIST_REGEX = ^\[.*\]$
JSON_LIST_REGEX(s) == Len(s) >= 2 /\ s[1] = "[" /\ s[Len(s)] = "]"

\* json.loads on the text between the brackets of a JSON list of strings:
\* blanks are skipped, items are double-quoted and separated by commas
RECURSIVE JsonItems(_, _, _, _, _)
JsonItems(s, i, mode, cur, acc) ==
    IF i > Len(s)
    THEN IF mode = "after" \/ mode = "first"
         THEN [ok |-> TRUE, toks |-> acc]
         ELSE [ok |-> FALSE, toks |-> <<>>]
    ELSE IF mode = "instr"
         THEN IF s[i] = "\""
              THEN JsonItems(s, i + 1, "after", <<>>, Append(acc, cur))
              ELSE JsonItems(s, i + 1, "instr", Append(cur, s[i]), acc)
         ELSE IF s[i] = " "
              THEN JsonItems(s, i + 1, mode, cur, acc)
              ELSE IF mode = "after"
                   THEN IF s[i] = ","
                        THEN JsonItems(s, i + 1, "value", <<>>, acc)
                        ELSE [ok |-> FALSE, toks |-> <<>>]
                   ELSE IF s[i] = "\""
                        THEN JsonItems(s, i + 1, "instr", <<>>, acc)
                        ELSE [ok |-> FALSE, toks |-> <<>>]

json_loads(s) == JsonItems(SubSeq(s, 2, Len(s) - 1), 1, "first", <<>>, <<>>)

\* EcsTaskDefinition.parse_command: ok = FALSE is EcsTaskDefinitionCommandError
parse_command(command) ==
    IF JSON_LIST_REGEX(command)
    THEN json_loads(command)
    ELSE [ok |-> TRUE, toks |-> Split(command)]

\* ------------------------------------------------------------ Python dicts
DictKeys(d) == {d[i][1] : i \in 1..Len(d)}

DictGet(d, k) == LET i == CHOOSE j \in 1..Len(d) : d[j][1] = k IN d[i][2]

\* d[k] = v: an existing key keeps its position, a new key goes last
DictSet(d, k, v) ==
    IF k \in DictKeys(d)
    THEN [i \in 1..Len(d) |-> IF d[i][1] = k THEN <<k, v>> ELSE d[i]]
    ELSE Append(d, <<k, v>>)

\* d.update(n)
RECURSIVE DictUpdate(_, _)
DictUpdate(d, n) ==
    IF n = <<>> THEN d
    ELSE DictUpdate(DictSet(d, Head(n)[1], Head(n)[2]), Tail(n))

\* d1 == d2 on dicts: same keys with the same values, in any order
DictEq(d1, d2) == Range(d1) = Range(d2)

\* {env['name']: env['value'] for env in environment}
RECURSIVE EnvListToDict(_)
EnvListToDict(l) ==
    IF l = <<>> THEN <<>>
    ELSE LET front == EnvListToDict(SubSeq(l, 1, Len(l) - 1))
         IN  DictSet(front, l[Len(l)].name, l[Len(l)].value)

\* {secret['name']: secret['valueFrom'] for secret in secrets}
RECURSIVE SecretListToDict(_)
SecretListToDict(l) ==
    IF l = <<>> THEN <<>>
    ELSE LET front == SecretListToDict(SubSeq(l, 1, Len(l) - 1))
         IN  DictSet(front, l[Len(l)].name, l[Len(l)].valueFrom)

\* [{"name": e, "value": merged[e]} for e in merged]
EnvDictToList(d) == [i \in 1..Len(d) |-> [name |-> d[i][1], value |-> d[i][2]]]

\* [{"name": s, "valueFrom": merged[s]} for s in merged]
SecretDictToList(d) == [i \in 1..Len(d) |-> [name |-> d[i][1], valueFrom |-> d[i][2]]]

\* the grouping loop of set_environment / set_secrets:
\*   environment.setdefault(env[0], {}); environment[env[0]][env[1]] = env[2]
RECURSIVE GroupTriples(_)
GroupTriples(l) ==
    IF l = <<>> THEN <<>>
    ELSE LET front == GroupTriples(SubSeq(l, 1, Len(l) - 1))
             t     == l[Len(l)]
             inner == IF t[1] \in DictKeys(front) THEN DictGet(front, t[1]) ELSE <<>>
         IN  DictSet(front, t[1], DictSet(inner, t[2], t[3]))

\* ---------------------------------------------------------- ChangeRecords
\* the values a record carries: a string, a token list, a mapping, or None
VNone    == [kind |-> "none", str |-> <<>>, toks |-> <<>>, map |-> <<>>]
VStr(s)  == [kind |-> "str",  str |-> s,    toks |-> <<>>, map |-> <<>>]
VToks(t) == [kind |-> "toks", str |-> <<>>, toks |-> t,    map |-> <<>>]
VMap(m)  == [kind |-> "map",  str |-> <<>>, toks |-> <<>>, map |-> m]

\* the container of a definition-level record (container=None)
NoContainer == "<None>"

EcsTaskDefinitionDiff(container, field, value, old_value) ==
    [container |-> container, field |-> field, value |-> value, old_value |-> old_value]

\* ------------------------------------------------------ EcsTaskDefinition
container_names(cs) == {cs[i].name : i \in 1..Len(cs)}

\* faulty variant of UnknownContainer: only the first option is validated
UnknownContainer_FirstOnly(cs, options) ==
    options # <<>> /\ options[1][1] \notin container_names(cs)

\* validate_container_options: TRUE when UnknownContainerError is raised
UnknownContainer(cs, options) == \E n \in DictKeys(options) : n \notin container_names(cs)

\* container.get('command')
GetCommand(c) == IF c.hasCommand THEN VToks(c.command) ELSE VNone

\* faulty variant of SetImagesFrom: the global tag is recorded without the
\* "check if tag changes"
RECURSIVE SetImagesFrom_NoTagCheck(_, _, _, _, _)
SetImagesFrom_NoTagCheck(cs, d, i, tag, images) ==
    IF i > Len(cs) THEN [containers |-> cs, diff |-> d, err |-> "ok"]
    ELSE LET c == cs[i]
             new_image == IF c.name \in DictKeys(images)
                          THEN DictGet(images, c.name)
                          ELSE RsplitHead(c.image, ":") \o <<":">> \o Strip(tag)
             rec == EcsTaskDefinitionDiff(c.name, "image", VStr(new_image), VStr(c.image))
         IN  IF c.name \in DictKeys(images) \/ tag # EmptyStr
             THEN SetImagesFrom_NoTagCheck([cs EXCEPT ![i].image = new_image], Append(d, rec),
                                           i + 1, tag, images)
             ELSE SetImagesFrom_NoTagCheck(cs, d, i + 1, tag, images)

\* the loop of set_images over containers i..Len(cs)
RECURSIVE SetImagesFrom(_, _, _, _, _)
SetImagesFrom(cs, d, i, tag, images) ==
    IF i > Len(cs) THEN [containers |-> cs, diff |-> d, err |-> "ok"]
    ELSE LET c == cs[i] IN
         IF c.name \in DictKeys(images)
         THEN LET new_image == DictGet(images, c.name)
                  rec == EcsTaskDefinitionDiff(c.name, "image", VStr(new_image), VStr(c.image))
              IN  SetImagesFrom([cs EXCEPT ![i].image = new_image], Append(d, rec),
                                i + 1, tag, images)
         ELSE IF tag # EmptyStr
              THEN LET new_image == RsplitHead(c.image, ":") \o <<":">> \o Strip(tag)
                       rec == EcsTaskDefinitionDiff(c.name, "image", VStr(new_image), VStr(c.image))
                   IN  IF new_image # c.image
                       THEN SetImagesFrom([cs EXCEPT ![i].image = new_image], Append(d, rec),
                                          i + 1, tag, images)
                       ELSE SetImagesFrom(cs, d, i + 1, tag, images)
              ELSE SetImagesFrom(cs, d, i + 1, tag, images)

set_images(cs, d, tag, images) ==
    IF UnknownContainer(cs, images)
    THEN [containers |-> cs, diff |-> d, err |-> "UnknownContainerError"]
    ELSE SetImagesFrom(cs, d, 1, tag, images)

\* the loop of set_commands over containers i..Len(cs): the record is
\* appended before parse_command runs on the new command
RECURSIVE SetCommandsFrom(_, _, _, _)
SetCommandsFrom(cs, d, i, commands) ==
    IF i > Len(cs) THEN [containers |-> cs, diff |-> d, err |-> "ok"]
    ELSE LET c == cs[i] IN
         IF c.name \in DictKeys(commands)
         THEN LET new_command == DictGet(commands, c.name)
                  rec == EcsTaskDefinitionDiff(c.name, "command", VStr(new_command), GetCommand(c))
                  parsed == parse_command(new_command)
              IN  IF parsed.ok
                  THEN SetCommandsFrom([cs EXCEPT ![i].hasCommand = TRUE,
                                                  ![i].command = parsed.toks],
                                       Append(d, rec), i + 1, commands)
                  ELSE [containers |-> cs, diff |-> Append(d, rec),
                        err |-> "EcsTaskDefinitionCommandError"]
         ELSE SetCommandsFrom(cs, d, i + 1, commands)

set_commands(cs, d, commands) ==
    IF UnknownContainer(cs, commands)
    THEN [containers |-> cs, diff |-> d, err |-> "UnknownContainerError"]
    ELSE SetCommandsFrom(cs, d, 1, commands)

\* faulty variant of Merged: existing keys win over new ones
Merged_OldWins(old, new, exclusive) == IF exclusive THEN new ELSE DictUpdate(new, old)

\* faulty variant of Merged: exclusive is ignored
Merged_NeverExclusive(old, new, exclusive) == DictUpdate(old, new)

\* the merge of apply_container_environment / apply_container_secrets
Merged(old, new, exclusive) == IF exclusive THEN new ELSE DictUpdate(old, new)

\* container.get('environment', {}) cannot be read as a list of pairs: it is
\* a non-empty dict (left by diff_raw), whose iteration yields key strings,
\* and env['name'] raises TypeError
Unreadable(form, items) == form = "dict" /\ items # <<>>

\* faulty variant of apply_container_environment: the record carries only
\* the variables of the call
apply_container_environment_OnlyNew(c, d, new_environment, exclusive) ==
    LET old_environment == EnvListToDict(c.environment)
        merged == Merged(old_environment, new_environment, exclusive)
    IN  IF DictEq(old_environment, merged)
        THEN [container |-> c, diff |-> d, err |-> "ok"]
        ELSE [container |-> [c EXCEPT !.environment = EnvDictToList(merged),
                                      !.environmentForm = "list"],
              diff |-> Append(d, EcsTaskDefinitionDiff(c.name, "environment",
                                                       VMap(new_environment),
                                                       VMap(old_environment))),
              err |-> "ok"]

apply_container_environment(c, d, new_environment, exclusive) ==
    IF Unreadable(c.environmentForm, c.environment)
    THEN [container |-> c, diff |-> d, err |-> "TypeError"]
    ELSE
    LET old_environment == EnvListToDict(c.environment)
        merged == Merged(old_environment, new_environment, exclusive)
    IN  IF DictEq(old_environment, merged)
        THEN [container |-> c, diff |-> d, err |-> "ok"]
        ELSE [container |-> [c EXCEPT !.environment = EnvDictToList(merged),
                                      !.environmentForm = "list"],
              diff |-> Append(d, EcsTaskDefinitionDiff(c.name, "environment",
                                                       VMap(merged), VMap(old_environment))),
              err |-> "ok"]

apply_container_secrets(c, d, new_secrets, exclusive) ==
    IF Unreadable(c.secretsForm, c.secrets)
    THEN [container |-> c, diff |-> d, err |-> "TypeError"]
    ELSE
    LET old_secrets == SecretListToDict(c.secrets)
        merged == Merged(old_secrets, new_secrets, exclusive)
    IN  IF DictEq(old_secrets, merged)
        THEN [container |-> c, diff |-> d, err |-> "ok"]
        ELSE [container |-> [c EXCEPT !.secrets = SecretDictToList(merged),
                                      !.secretsForm = "list"],
              diff |-> Append(d, EcsTaskDefinitionDiff(c.name, "secrets",
                                                       VMap(merged), VMap(old_secrets))),
              err |-> "ok"]

\* the loop of set_environment over containers i..Len(cs); an exception of
\* apply_container_environment ends it
RECURSIVE SetEnvironmentFrom(_, _, _, _, _)
SetEnvironmentFrom(cs, d, i, environment, exclusive) ==
    IF i > Len(cs) THEN [containers |-> cs, diff |-> d, err |-> "ok"]
    ELSE LET c == cs[i]
             r == apply_container_environment(
                    c, d,
                    IF c.name \in DictKeys(environment) THEN DictGet(environment, c.name)
                    ELSE <<>>,
                    exclusive)
         IN  IF c.name \in DictKeys(environment) \/ exclusive
             THEN IF r.err = "ok"
                  THEN SetEnvironmentFrom([cs EXCEPT ![i] = r.container], r.diff, i + 1,
                                          environment, exclusive)
                  ELSE [containers |-> cs, diff |-> d, err |-> r.err]
             ELSE SetEnvironmentFrom(cs, d, i + 1, environment, exclusive)

set_environment(cs, d, environment_list, exclusive) ==
    LET environment == GroupTriples(environment_list)
    IN  IF UnknownContainer(cs, environment)
        THEN [containers |-> cs, diff |-> d, err |-> "UnknownContainerError"]
        ELSE SetEnvironmentFrom(cs, d, 1, environment, exclusive)

\* the loop of set_secrets over containers i..Len(cs)
RECURSIVE SetSecretsFrom(_, _, _, _, _)
SetSecretsFrom(cs, d, i, secrets, exclusive) ==
    IF i > Len(cs) THEN [containers |-> cs, diff |-> d, err |-> "ok"]
    ELSE LET c == cs[i]
             r == apply_container_secrets(
                    c, d,
                    IF c.name \in DictKeys(secrets) THEN DictGet(secrets, c.name) ELSE <<>>,
                    exclusive)
         IN  IF c.name \in DictKeys(secrets) \/ exclusive
             THEN IF r.err = "ok"
                  THEN SetSecretsFrom([cs EXCEPT ![i] = r.container], r.diff, i + 1,
                                      secrets, exclusive)
                  ELSE [containers |-> cs, diff |-> d, err |-> r.err]
             ELSE SetSecretsFrom(cs, d, i + 1, secrets, exclusive)

set_secrets(cs, d, secrets_list, exclusive) ==
    LET secrets == GroupTriples(secrets_list)
    IN  IF UnknownContainer(cs, secrets)
        THEN [containers |-> cs, diff |-> d, err |-> "UnknownContainerError"]
        ELSE SetSecretsFrom(cs, d, 1, secrets, exclusive)

\* faulty variant of set_role_arn: an earlier role_arn record is rewritten
\* instead of a new one being appended
set_role_arn_Rewrite(role, d, new_role) ==
    IF new_role # EmptyStr
    THEN LET rec == EcsTaskDefinitionDiff(NoContainer, "role_arn", VStr(new_role), VStr(role))
             old == {i \in 1..Len(d) : d[i].field = "role_arn"}
         IN  [role |-> new_role,
              diff |-> IF old = {} THEN Append(d, rec)
                       ELSE [i \in 1..Len(d) |-> IF i \in old THEN rec ELSE d[i]]]
    ELSE [role |-> role, diff |-> d]

\* set_role_arn / set_execution_role_arn: the new role and log
set_role_arn(role, d, new_role) ==
    IF new_role # EmptyStr
    THEN [role |-> new_role,
          diff |-> Append(d, EcsTaskDefinitionDiff(NoContainer, "role_arn",
                                                   VStr(new_role), VStr(role)))]
    ELSE [role |-> role, diff |-> d]

set_execution_role_arn(role, d, new_role) ==
    IF new_role # EmptyStr
    THEN [role |-> new_role,
          diff |-> Append(d, EcsTaskDefinitionDiff(NoContainer, "execution_role_arn",
                                                   VStr(new_role), VStr(role)))]
    ELSE [role |-> role, diff |-> d]

\* f"tags['{key}']"
TagField(key) == "tags['" \o key \o "']"

\* get_tag on a tag list: the value of the first tag with that key, or None
get_tag(ts, key) ==
    LET hits == {i \in 1..Len(ts) : ts[i].key = key}
    IN  IF hits = {} THEN VNone
        ELSE VStr(ts[CHOOSE i \in hits : \A j \in hits : i <= j].value)

\* faulty variant of set_tag: an existing tag is updated without a record
set_tag_Silent(ts, d, key, value) ==
    LET hits == {i \in 1..Len(ts) : ts[i].key = key}
    IN  IF key # "" /\ value # EmptyStr /\ hits # {}
        THEN [tags |-> [i \in 1..Len(ts) |->
                          IF i \in hits THEN [ts[i] EXCEPT !.value = value] ELSE ts[i]],
              diff |-> d]
        ELSE [tags |-> ts, diff |-> d]

\* set_tag on a tag list (self.tags is a list): only the first tag with the
\* key is looked at
set_tag(ts, d, key, value) ==
    IF key # "" /\ value # EmptyStr
    THEN LET hits == {i \in 1..Len(ts) : ts[i].key = key}
         IN  IF hits # {}
             THEN LET i == CHOOSE k \in hits : \A j \in hits : k <= j
                  IN  IF ts[i].value # value
                      THEN [tags |-> [ts EXCEPT ![i].value = value],
                            diff |-> Append(d, EcsTaskDefinitionDiff(NoContainer, TagField(key),
                                                      VStr(value), VStr(ts[i].value)))]
                      ELSE [tags |-> ts, diff |-> d]
             ELSE [tags |-> Append(ts, [key |-> key, value |-> value]),
                   diff |-> Append(d, EcsTaskDefinitionDiff(NoContainer, TagField(key),
                                                            VStr(value), VNone))]
    ELSE [tags |-> ts, diff |-> d]

\* get_overrides: the walk over the change log.  override is the dict under
\* construction, inList tells whether it is the last element of overrides
\* (the initial {} is not); err is set when get_overrides_command raises
RECURSIVE OverridesFrom(_, _, _, _, _)
OverridesFrom(d, i, override, inList, overrides) ==
    IF i > Len(d) THEN [ok |-> TRUE, overrides |-> overrides]
    ELSE LET rec     == d[i]
             fresh   == override.name # rec.container
             ov0     == IF fresh THEN [name |-> rec.container] ELSE override
             in0     == fresh \/ inList
             list0   == IF fresh THEN Append(overrides, ov0) ELSE overrides
             parsed  == parse_command(rec.value.str)
             ov1     == IF rec.field = "command"
                        THEN ("command" :> parsed.toks) @@ ov0
                        ELSE IF rec.field = "environment"
                        THEN ("environment" :> EnvDictToList(rec.value.map)) @@ ov0
                        ELSE IF rec.field = "secrets"
                        THEN ("secrets" :> SecretDictToList(rec.value.map)) @@ ov0
                        ELSE ov0
             list1   == IF in0 THEN [list0 EXCEPT ![Len(list0)] = ov1] ELSE list0
         IN  IF rec.field = "command" /\ ~parsed.ok
             THEN [ok |-> FALSE, overrides |-> <<>>]
             ELSE OverridesFrom(d, i + 1, ov1, in0, list1)

\* faulty variant of get_overrides: every entry starts with empty
\* command / environment / secrets placeholders
get_overrides_Placeholders(d) ==
    LET r == OverridesFrom(d, 1, [name |-> NoContainer], FALSE, <<>>)
    IN  [r EXCEPT !.overrides =
           [i \in 1..Len(r.overrides) |->
              r.overrides[i] @@ [command |-> <<>>, environment |-> <<>>, secrets |-> <<>>]]]

\* override = dict(): override.get('name') is None
get_overrides(d) == OverridesFrom(d, 1, [name |-> NoContainer], FALSE, <<>>)

\* ------------------------------------------------------------ the inputs
Str_r1   == <<"r", ":", "1">>
Str_r2   == <<"r", ":", "2">>
Str_q    == <<"q">>
Str_q2   == <<"q", ":", "2">>
Str_2    == <<"2">>
Str_2pad == <<" ", "2">>
Cmd_eh   == <<"e", " ", "h">>
Cmd_js   == <<"[", "\"", "s", "\"", "]">>
Cmd_bad  == <<"[", "x", "]">>
Arn1     == <<"a", "1">>
Arn2     == <<"a", "2">>
Val1     == <<"v", "1">>
Val2     == <<"v", "2">>

ImageInputs ==
    { <<>>,
      << <<"A", Str_r2>> >>,
      << <<"B", Str_r2>> >>,
      << <<"A", Str_r2>>, <<"Z", Str_r2>> >> }

TagInputs == { EmptyStr, Str_2, Str_2pad }

CommandInputs ==
    { << <<"A", Cmd_eh>> >>,
      << <<"B", Cmd_js>> >>,
      << <<"A", Cmd_eh>>, <<"B", Cmd_bad>> >>,
      << <<"A", Cmd_bad>> >>,
      << <<"B", Cmd_eh>>, <<"Z", Cmd_eh>> >> }

TripleInputs ==
    { <<>>,
      << <<"A", "b", "3">>, <<"A", "c", "4">> >>,
      << <<"A", "a", "1">> >>,
      << <<"B", "a", "2">> >>,
      << <<"B", "a", "1">>, <<"Z", "a", "1">> >> }

SecretInputs ==
    { <<>>,
      << <<"A", "s", "x">> >>,
      << <<"B", "s", "y">>, <<"B", "t", "x">> >>,
      << <<"A", "s", "x">>, <<"Z", "s", "x">> >> }

RoleInputs   == { EmptyStr, Arn1, Arn2 }
TagKeyInputs == { "", "k" }
TagValInputs == { EmptyStr, Val1, Val2 }

\* ------------------------------------------------------------- the state
\* no call of get_task_definition_filtered has returned yet
NoResolution ==
    [status |-> "none", arn |-> <<>>, family |-> <<>>, module_version |-> <<>>, describes |-> 0,
     named |-> <<>>]

NoCall == [op |-> "none", err |-> "ok", kw |-> <<>>, tag |-> EmptyStr, triples |-> <<>>,
           exclusive |-> FALSE, str |-> EmptyStr, key |-> "", repeat |-> FALSE]

\* the record of a call: repeat tells that the call before it was the same
\* operation with the same arguments
Call(c) ==
    [c EXCEPT !.repeat = /\ last.op = c.op /\ last.kw = c.kw /\ last.tag = c.tag
                         /\ last.triples = c.triples /\ last.exclusive = c.exclusive
                         /\ last.str = c.str /\ last.key = c.key]

\* the **kwargs of __init__: the payload fields without a parameter
InitKwargs == << <<"cpu", "256">>, <<"registeredAt", "t0">>, <<"registeredBy", "u0">> >>

\* {k: v for k, v in kwargs.items() if k not in ("registeredAt", "registeredBy")}
WithoutRegistered(kwargs) ==
    SelectSeq(kwargs, LAMBDA p : p[1] \notin {"registeredAt", "registeredBy"})

\* the request of a register_task_definition call; tags is the 'tags'
\* keyword, present when hasTags
NoRequest ==
    [containers |-> <<>>, role_arn |-> EmptyStr, execution_role_arn |-> EmptyStr,
     other |-> <<>>, hasTags |-> FALSE, tags |-> <<>>]

\* no register or run has been made on the definition as it is now
NoAction ==
    [op |-> "none", err |-> "ok", request |-> NoRequest, launchtype |-> "",
     subnets |-> <<>>, security_groups |-> <<>>, run_task_calls |-> 0]

\* no diff_raw has been made on the definition as it is now
NoDiff == [op |-> "none", err |-> "ok", result |-> {}, variant |-> "", b_in |-> <<>>, b_out |-> <<>>]

\* no is_deployed call is under way or has been made
NotAsked ==
    [pc |-> "idle", result |-> FALSE, taskArns |-> <<>>,
     service |-> [deployments |-> 0, desiredCount |-> 0, taskDefinition |-> ""]]

\* a setter call ends what is recorded of the last diff_raw, register or run
Forget == diffed' = NoDiff /\ sent' = NoAction

\* a container definition of a remote payload.  environment and secrets
\* hold the pairs; their form tells how the container holds them: no key
\* ("absent"), the payload's list of pairs ("list"), or a name->value dict
\* ("dict", left by diff_raw)
Container(name, image, environment, secrets) ==
    [name |-> name, image |-> image, hasCommand |-> FALSE, command |-> <<>>,
     environment |-> environment,
     environmentForm |-> IF environment = <<>> THEN "absent" ELSE "list",
     secrets |-> secrets,
     secretsForm |-> IF secrets = <<>> THEN "absent" ELSE "list"]

\* EcsTaskDefinition.__init__ on a describe-task-definition payload (tags
\* is the payload's tag list) or on a registration response (tags=None)
InitTaskDefinition ==
    /\ \E imgB \in {Str_q, Str_q2} :
         containers =
           << Container("A", Str_r1,
                        <<[name |-> "a", value |-> "1"], [name |-> "b", value |-> "2"]>>,
                        <<>>),
              Container("B", imgB, <<[name |-> "a", value |-> "1"]>>,
                        <<[name |-> "s", valueFrom |-> "x"]>>) >>
    /\ role_arn = EmptyStr
    /\ execution_role_arn = Arn1
    /\ \E none \in BOOLEAN :
         /\ tagsIsNone = none
         /\ tags = IF none THEN <<>> ELSE <<[key |-> "k", value |-> Val1]>>
    /\ _diff = <<>>
    /\ requires_attributes = <<[name |-> 2], [name |-> 1], [name |-> 3]>>
    /\ additional_properties = [other |-> WithoutRegistered(InitKwargs), hasTags |-> FALSE]
    /\ diffed = NoDiff
    /\ sent = NoAction

Init ==
    /\ InitTaskDefinition
    /\ last = NoCall
    /\ tasks = <<>>
    /\ deployed = NotAsked
    /\ remote = {}
    /\ resolved = NoResolution

\* the model stops calling setters once the change log has MaxLog records,
\* except that the call just made may be made once more
CanCall(c) == Len(_diff) < MaxLog \/ (Call(c).repeat /\ ~last.repeat)

SetImages ==
    /\ \E tag \in TagInputs, images \in ImageInputs :
         LET c == [NoCall EXCEPT !.op = "set_images", !.kw = images, !.tag = tag]
             r == set_images(containers, _diff, tag, images)
         IN  /\ CanCall(c)
             /\ containers' = r.containers
             /\ _diff' = r.diff
             /\ last' = Call([c EXCEPT !.err = r.err])
    /\ UNCHANGED <<role_arn, execution_role_arn, tags, tagsIsNone, remote, resolved,
                 requires_attributes, additional_properties>>
    /\ Forget
    /\ UNCHANGED <<tasks, deployed>>

SetCommands ==
    /\ \E commands \in CommandInputs :
         LET c == [NoCall EXCEPT !.op = "set_commands", !.kw = commands]
             r == set_commands(containers, _diff, commands)
         IN  /\ CanCall(c)
             /\ containers' = r.containers
             /\ _diff' = r.diff
             /\ last' = Call([c EXCEPT !.err = r.err])
    /\ UNCHANGED <<role_arn, execution_role_arn, tags, tagsIsNone, remote, resolved,
                 requires_attributes, additional_properties>>
    /\ Forget
    /\ UNCHANGED <<tasks, deployed>>

SetEnvironment ==
    /\ \E environment_list \in TripleInputs, exclusive \in BOOLEAN :
         LET c == [NoCall EXCEPT !.op = "set_environment", !.triples = environment_list,
                                 !.exclusive = exclusive]
             r == set_environment(containers, _diff, environment_list, exclusive)
         IN  /\ CanCall(c)
             /\ containers' = r.containers
             /\ _diff' = r.diff
             /\ last' = Call([c EXCEPT !.err = r.err])
    /\ UNCHANGED <<role_arn, execution_role_arn, tags, tagsIsNone, remote, resolved,
                 requires_attributes, additional_properties>>
    /\ Forget
    /\ UNCHANGED <<tasks, deployed>>

SetSecrets ==
    /\ \E secrets_list \in SecretInputs, exclusive \in BOOLEAN :
         LET c == [NoCall EXCEPT !.op = "set_secrets", !.triples = secrets_list,
                                 !.exclusive = exclusive]
             r == set_secrets(containers, _diff, secrets_list, exclusive)
         IN  /\ CanCall(c)
             /\ containers' = r.containers
             /\ _diff' = r.diff
             /\ last' = Call([c EXCEPT !.err = r.err])
    /\ UNCHANGED <<role_arn, execution_role_arn, tags, tagsIsNone, remote, resolved,
                 requires_attributes, additional_properties>>
    /\ Forget
    /\ UNCHANGED <<tasks, deployed>>

SetRoleArn ==
    /\ \E new_role \in RoleInputs :
         LET c == [NoCall EXCEPT !.op = "set_role_arn", !.str = new_role]
             r == set_role_arn(role_arn, _diff, new_role)
         IN  /\ CanCall(c)
             /\ role_arn' = r.role
             /\ _diff' = r.diff
             /\ last' = Call(c)
    /\ UNCHANGED <<containers, execution_role_arn, tags, tagsIsNone, remote, resolved,
                 requires_attributes, additional_properties>>
    /\ Forget
    /\ UNCHANGED <<tasks, deployed>>

SetExecutionRoleArn ==
    /\ \E new_role \in RoleInputs :
         LET c == [NoCall EXCEPT !.op = "set_execution_role_arn", !.str = new_role]
             r == set_execution_role_arn(execution_role_arn, _diff, new_role)
         IN  /\ CanCall(c)
             /\ execution_role_arn' = r.role
             /\ _diff' = r.diff
             /\ last' = Call(c)
    /\ UNCHANGED <<containers, role_arn, tags, tagsIsNone, remote, resolved,
                 requires_attributes, additional_properties>>
    /\ Forget
    /\ UNCHANGED <<tasks, deployed>>

\* with self.tags = None the loop "for tag in self.tags" raises TypeError
SetTag ==
    /\ \E key \in TagKeyInputs, value \in TagValInputs :
         LET c == [NoCall EXCEPT !.op = "set_tag", !.key = key, !.str = value]
             r == set_tag(tags, _diff, key, value)
         IN  /\ CanCall(c)
             /\ IF tagsIsNone /\ key # "" /\ value # EmptyStr
                THEN /\ last' = Call([c EXCEPT !.err = "TypeError"])
                     /\ UNCHANGED <<tags, _diff>>
                ELSE /\ tags' = r.tags
                     /\ _diff' = r.diff
                     /\ last' = Call(c)
    /\ UNCHANGED <<containers, role_arn, execution_role_arn, tagsIsNone, remote, resolved,
                 requires_attributes, additional_properties>>
    /\ Forget
    /\ UNCHANGED <<tasks, deployed>>

Next ==
    \/ SetImages
    \/ SetCommands
    \/ SetEnvironment
    \/ SetSecrets
    \/ SetRoleArn
    \/ SetExecutionRoleArn
    \/ SetTag

Spec == Init /\ [][Next]_vars

\* ---------------------------------------------------------------- diff_raw
\* a task definition as diff_raw reads it.  tags is carried because
\* additional_properties['tags'], when present, is the tag list itself
TaskDefinition(cs, reqs, role, exec, props, ts) ==
    [containers |-> cs, requires_attributes |-> reqs, role_arn |-> role,
     execution_role_arn |-> exec, additional_properties |-> props, tags |-> ts]

\* sorted(...) of a list of names; names are numbered in their sort order
RECURSIVE sorted(_)
sorted(s) ==
    IF s = <<>> THEN <<>>
    ELSE LET m == CHOOSE i \in 1..Len(s) :
                    /\ \A j \in 1..Len(s) : s[i] <= s[j]
                    /\ \A j \in 1..(i - 1) : s[j] # s[i]
         IN  <<s[m]>> \o sorted(SubSeq(s, 1, m - 1) \o SubSeq(s, m + 1, Len(s)))

\* [r['name'] for r in requires_attributes]
RequirementNames(reqs) == [i \in 1..Len(reqs) |-> reqs[i].name]

\* for container in containers_x: container['environment'] = {e['name']:
\* e['value'] for e in container.get('environment', {})}, container by
\* container from the i-th on.  Iterating a non-empty dict yields its keys,
\* and e['name'] on a key raises TypeError; the containers before it stay
\* rewritten
RECURSIVE NormaliseEnvironment(_, _)
NormaliseEnvironment(cs, i) ==
    IF i > Len(cs) THEN [containers |-> cs, err |-> "ok"]
    ELSE IF Unreadable(cs[i].environmentForm, cs[i].environment)
    THEN [containers |-> cs, err |-> "TypeError"]
    ELSE NormaliseEnvironment(
           [cs EXCEPT ![i].environment = EnvDictToList(EnvListToDict(@)),
                      ![i].environmentForm = "dict"], i + 1)

\* the same for container['secrets'] and e['valueFrom']
RECURSIVE NormaliseSecrets(_, _)
NormaliseSecrets(cs, i) ==
    IF i > Len(cs) THEN [containers |-> cs, err |-> "ok"]
    ELSE IF Unreadable(cs[i].secretsForm, cs[i].secrets)
    THEN [containers |-> cs, err |-> "TypeError"]
    ELSE NormaliseSecrets(
           [cs EXCEPT ![i].secrets = SecretDictToList(SecretListToDict(@)),
                      ![i].secretsForm = "dict"], i + 1)

\* the value of additional_properties as a dict: the other keys, and
\* 'tags' when register_task_definition has stored the tag list there
PropertiesValue(t) ==
    [other |-> Range(t.additional_properties.other),
     tags  |-> IF t.additional_properties.hasTags THEN <<"tags", t.tags>> ELSE <<>>]

\* containers_x = {c['name']: c for c in containers}: the container of a name
ContainerOf(cs, name) == cs[CHOOSE i \in 1..Len(cs) : cs[i].name = name]

\* list(diff(composite_a, composite_b)): the paths at which the two
\* composites differ.  volumes and compatibilities are passed through
\* from the payload and are the same on both sides
CompositeDiff(a, b) ==
    LET na == container_names(a.containers)
        nb == container_names(b.containers)
        field(name, f) ==
            LET ca == ContainerOf(a.containers, name)
                cb == ContainerOf(b.containers, name)
            IN  CASE f = "image"       -> ca.image = cb.image
                  [] f = "command"     -> GetCommand(ca) = GetCommand(cb)
                  [] f = "environment" -> DictEq(EnvListToDict(ca.environment),
                                                 EnvListToDict(cb.environment))
                  [] f = "secrets"     -> DictEq(SecretListToDict(ca.secrets),
                                                 SecretListToDict(cb.secrets))
    IN    {<<"containers", n, "">> : n \in (na \ nb) \cup (nb \ na)}
     \cup {<<"containers", n, f>> : <<n, f>> \in
             {p \in (na \cap nb) \X {"image", "command", "environment", "secrets"} :
                ~field(p[1], p[2])}}
     \cup (IF sorted(RequirementNames(a.requires_attributes))
                = sorted(RequirementNames(b.requires_attributes))
           THEN {} ELSE {<<"requires_attributes", "", "">>})
     \cup (IF a.role_arn = b.role_arn THEN {} ELSE {<<"role_arn", "", "">>})
     \cup (IF a.execution_role_arn = b.execution_role_arn
           THEN {} ELSE {<<"execution_role_arn", "", "">>})
     \cup (IF PropertiesValue(a) = PropertiesValue(b)
           THEN {} ELSE {<<"additional_properties", "", "">>})

\* self.diff_raw(task_b): the four rewriting loops in the order of the
\* code, then the comparison; a and b are the two definitions afterwards
diff_raw(self, task_b) ==
    LET e1 == NormaliseEnvironment(self.containers, 1)
        e2 == IF e1.err = "ok" THEN NormaliseEnvironment(task_b.containers, 1)
              ELSE [containers |-> task_b.containers, err |-> e1.err]
        s1 == IF e2.err = "ok" THEN NormaliseSecrets(e1.containers, 1)
              ELSE [containers |-> e1.containers, err |-> e2.err]
        s2 == IF s1.err = "ok" THEN NormaliseSecrets(e2.containers, 1)
              ELSE [containers |-> e2.containers, err |-> s1.err]
        a  == [self EXCEPT !.containers = s1.containers]
        b  == [task_b EXCEPT !.containers = s2.containers]
    IN  [a |-> a, b |-> b, err |-> s2.err,
         result |-> IF s2.err = "ok" THEN CompositeDiff(a, b) ELSE {}]

\* the list read back to front
Reverse(s) == [i \in 1..Len(s) |-> s[Len(s) + 1 - i]]

\* the pairs of a definition as a payload carries them: a list, or no key
\* when there is none
AsPayload(c) ==
    [c EXCEPT !.environmentForm = IF c.environment = <<>> THEN "absent" ELSE "list",
              !.secretsForm     = IF c.secrets = <<>> THEN "absent" ELSE "list"]

\* the definitions self is compared with: a second payload with the content
\* of self, the same or with one list in another order ("environment",
\* "secrets", "requiresAttributes"), or with a changed image or a changed
\* variable
OrderVariants == {"environment", "secrets", "requiresAttributes"}
Variants == {"same", "image", "value"} \cup OrderVariants

VariantOf(t, v) ==
    LET cs == [i \in 1..Len(t.containers) |-> AsPayload(t.containers[i])]
    IN  CASE v = "same" -> [t EXCEPT !.containers = cs]
          [] v = "environment" ->
               [t EXCEPT !.containers =
                  [i \in 1..Len(cs) |-> [cs[i] EXCEPT !.environment = Reverse(@)]]]
          [] v = "secrets" ->
               [t EXCEPT !.containers =
                  [i \in 1..Len(cs) |-> [cs[i] EXCEPT !.secrets = Reverse(@)]]]
          [] v = "requiresAttributes" ->
               [t EXCEPT !.containers = cs, !.requires_attributes = Reverse(@)]
          [] v = "image" ->
               [t EXCEPT !.containers = [cs EXCEPT ![Len(cs)].image = Str_r2]]
          [] v = "value" ->
               [t EXCEPT !.containers =
                  [cs EXCEPT ![1].environment =
                     IF @ = <<>> THEN <<[name |-> "n", value |-> "0"]>>
                     ELSE [@ EXCEPT ![1].value = "0"]]]

\* the task definition held in the variables
Self == TaskDefinition(containers, requires_attributes, role_arn, execution_role_arn,
                       additional_properties, tags)

DiffRaw ==
    /\ \E v \in Variants :
         LET b == VariantOf(Self, v)
             r == diff_raw(Self, b)
         IN  /\ containers' = r.a.containers
             /\ diffed' = [op |-> "diff_raw", err |-> r.err, result |-> r.result,
                           variant |-> v, b_in |-> b.containers,
                           b_out |-> r.b.containers]
    /\ UNCHANGED <<role_arn, execution_role_arn, tags, tagsIsNone, _diff, last,
                   remote, resolved, requires_attributes, additional_properties, sent,
                   tasks, deployed>>

NextDiff ==
    \/ SetImages
    \/ SetEnvironment
    \/ SetSecrets
    \/ DiffRaw

SpecDiff == Init /\ [][NextDiff]_vars

\* ------------------------------------------------------- register and run
\* EcsClient.register_task_definition as update_task_definition calls it,
\* with the task definition's own tags and additional_properties dict:
\* "if tags: additional_properties['tags'] = tags" stores the tag list in
\* that dict, then the request is built from it
register_task_definition(t, tagsNone) ==
    LET props == [t.additional_properties EXCEPT
                    !.hasTags = @ \/ (~tagsNone /\ t.tags # <<>>)]
    IN  [additional_properties |-> props,
         request |-> [containers |-> t.containers, role_arn |-> t.role_arn,
                      execution_role_arn |-> t.execution_role_arn,
                      other |-> props.other, hasTags |-> props.hasTags,
                      tags |-> IF props.hasTags THEN t.tags ELSE <<>>]]

\* EcsClient.run_task: fails tells whether the remote call raises
\* ClientError; calls counts the boto run_task calls made
run_task(launchtype, subnets, security_groups, fails) ==
    IF launchtype = "FARGATE" /\ (subnets = <<>> \/ security_groups = <<>>)
    THEN [err |-> "TaskPlacementError", calls |-> 0]
    ELSE [err |-> IF fails THEN "ClientError" ELSE "ok", calls |-> 1]

\* RunAction.run: the arguments of run_task, get_overrides() among them,
\* are evaluated before the call; ClientError becomes EcsError
run(d, launchtype, subnets, security_groups, fails) ==
    LET r == run_task(launchtype, subnets, security_groups, fails)
    IN  IF ~get_overrides(d).ok
        THEN [err |-> "EcsTaskDefinitionCommandError", calls |-> 0]
        ELSE IF r.err = "ClientError" THEN [r EXCEPT !.err = "EcsError"]
        ELSE r

LaunchTypes == {"EC2", "FARGATE"}
SubnetInputs == { <<>>, <<"sn">> }
SecurityGroupInputs == { <<>>, <<"sg">> }

\* EcsAction.update_task_definition(self): the ClientError of the remote
\* call is not caught
UpdateTaskDefinition ==
    /\ \E fails \in BOOLEAN :
         LET r == register_task_definition(Self, tagsIsNone)
         IN  /\ additional_properties' = r.additional_properties
             /\ sent' = [NoAction EXCEPT !.op = "register", !.request = r.request,
                                         !.err = IF fails THEN "ClientError" ELSE "ok"]
    /\ UNCHANGED <<tdVars, last, remote, resolved, requires_attributes, diffed,
                   tasks, deployed>>

Run ==
    /\ \E launchtype \in LaunchTypes, subnets \in SubnetInputs,
          security_groups \in SecurityGroupInputs, fails \in BOOLEAN :
         LET r == run(_diff, launchtype, subnets, security_groups, fails)
         IN  sent' = [NoAction EXCEPT !.op = "run", !.err = r.err,
                                      !.launchtype = launchtype, !.subnets = subnets,
                                      !.security_groups = security_groups,
                                      !.run_task_calls = r.calls]
    /\ UNCHANGED <<tdVars, last, remote, resolved, requires_attributes,
                   additional_properties, diffed, tasks, deployed>>

NextActions ==
    \/ SetCommands
    \/ SetEnvironment
    \/ SetTag
    \/ UpdateTaskDefinition
    \/ Run

SpecActions == Init /\ [][NextActions]_vars

\* ------------------------------------------------------------ is_deployed
\* boto list_tasks for the service: the ARNs of its tasks (a task's ARN is
\* its position in tasks)
list_tasks(ts) == [i \in 1..Len(ts) |-> i]

\* boto describe_tasks: the details of the tasks named, as they are now
describe_tasks(ts, task_arns) == [k \in 1..Len(task_arns) |-> ts[task_arns[k]]]

\* faulty variant of get_running_tasks_count: every RUNNING task counts
get_running_tasks_count_AnyRevision(service, tasks_details) ==
    Cardinality({k \in 1..Len(tasks_details) : tasks_details[k].lastStatus = "RUNNING"})

\* EcsAction.get_running_tasks_count, on the describe_tasks response
get_running_tasks_count(service, tasks_details) ==
    Cardinality({k \in 1..Len(tasks_details) :
                   /\ tasks_details[k].taskDefinitionArn = service.taskDefinition
                   /\ tasks_details[k].lastStatus = "RUNNING"})

TaskDefinitionArns == {"td:1", "td:2"}
TaskStatuses == {"PENDING", "RUNNING", "STOPPED"}

\* the service payloads handed to is_deployed: deployments is
\* len(service['deployments'])
ServiceInputs ==
    [deployments : 0..2, desiredCount : 0..2, taskDefinition : {"td:2"}]

\* the remote side: a task of the service is started
TaskStarts ==
    /\ Len(tasks) < MaxTasks
    /\ \E arn \in TaskDefinitionArns :
         tasks' = Append(tasks, [taskDefinitionArn |-> arn, lastStatus |-> "PENDING"])
    /\ UNCHANGED <<tdVars, last, remote, resolved, requires_attributes,
                   additional_properties, diffed, sent, deployed>>

\* the remote side: a task changes its status
TaskChanges ==
    /\ \E i \in 1..Len(tasks), status \in TaskStatuses :
         tasks' = [tasks EXCEPT ![i].lastStatus = status]
    /\ UNCHANGED <<tdVars, last, remote, resolved, requires_attributes,
                   additional_properties, diffed, sent, deployed>>

\* is_deployed up to the return of list_tasks: the two early returns, or
\* on to get_running_tasks_count with the ARNs listed
IsDeployed ==
    /\ deployed.pc \in {"idle", "done"}
    /\ \E service \in ServiceInputs :
         LET taskArns == list_tasks(tasks)
             asked    == [NotAsked EXCEPT !.service = service]
         IN  deployed' =
               IF service.deployments # 1
               THEN [asked EXCEPT !.pc = "done", !.result = FALSE]
               ELSE IF taskArns = <<>>
               THEN [asked EXCEPT !.pc = "done", !.result = (service.desiredCount = 0)]
               ELSE [asked EXCEPT !.pc = "listed", !.taskArns = taskArns]
    /\ UNCHANGED <<tdVars, last, remote, resolved, requires_attributes,
                   additional_properties, diffed, sent, tasks>>

\* the rest of is_deployed: describe_tasks, the count and the comparison
GetRunningTasksCount ==
    /\ deployed.pc = "listed"
    /\ LET running_count ==
             get_running_tasks_count(deployed.service,
                                     describe_tasks(tasks, deployed.taskArns))
       IN  deployed' = [deployed EXCEPT
                          !.pc = "done",
                          !.result = (deployed.service.desiredCount = running_count)]
    /\ UNCHANGED <<tdVars, last, remote, resolved, requires_attributes,
                   additional_properties, diffed, sent, tasks>>

NextService ==
    \/ TaskStarts
    \/ TaskChanges
    \/ IsDeployed
    \/ GetRunningTasksCount

SpecService == Init /\ [][NextService]_vars

\* ------------------------------------------- get_task_definition_filtered
DigitChars == <<"0", "1", "2", "3", "4", "5", "6", "7", "8", "9">>

DigitVal(c) == (CHOOSE k \in 1..10 : DigitChars[k] = c) - 1

\* int(s) on a string of decimal digits
RECURSIVE StrToInt(_)
StrToInt(s) ==
    IF s = <<>> THEN 0
    ELSE 10 * StrToInt(SubSeq(s, 1, Len(s) - 1)) + DigitVal(s[Len(s)])

\* str(n) for n >= 0
RECURSIVE IntToStr(_)
IntToStr(n) ==
    IF n < 10 THEN <<DigitChars[n + 1]>>
    ELSE IntToStr(n \div 10) \o <<DigitChars[(n % 10) + 1]>>

\* the candidate list: f'{mayor_minor_version}.{next_patch_version}' for
\* next_patch_version in range(int(patch_version), int(patch_version) + 10)
compatible_module_versions(module_version) ==
    LET mayor_minor_version == RsplitHead(module_version, ".")
        patch_version       == RsplitTail(module_version, ".")
    IN  {mayor_minor_version \o <<".">> \o IntToStr(n) :
           n \in StrToInt(patch_version)..(StrToInt(patch_version) + 9)}

\* faulty variant of get_resources: the Family filter is left out
get_resources_AnyFamily(rs, family, versions) ==
    {r.arn : r \in {x \in rs : x.ModuleVersion \in versions}}

\* the answer of the tagging service to get_resources with the two tag
\* filters: the ARNs tagged with the family and one of the versions
get_resources(rs, family, versions) ==
    {r.arn : r \in {x \in rs : x.Family = family /\ x.ModuleVersion \in versions}}

\* faulty variant of RevisionKey: revisions are ranked as strings
RevisionKey_AsString(arn) ==
    LET rev == RsplitTail(arn, ":")
    IN  100 * DigitVal(rev[1]) + (IF Len(rev) = 1 THEN 0 ELSE 1 + StrToInt(Tail(rev)))

\* the sort key: int(x.rsplit(':', 1)[1])
RevisionKey(arn) == StrToInt(RsplitTail(arn, ":"))

\* the ARNs that sorted(..., reverse=True) may put first
FirstSorted(arns) == {a \in arns : \A b \in arns : RevisionKey(b) <= RevisionKey(a)}

Ver_122  == <<"1", ".", "2", ".", "2">>
Ver_123  == <<"1", ".", "2", ".", "3">>
Ver_124  == <<"1", ".", "2", ".", "4">>
Ver_1212 == <<"1", ".", "2", ".", "1", "2">>
Ver_1213 == <<"1", ".", "2", ".", "1", "3">>
Ver_130  == <<"1", ".", "3", ".", "0">>

\* the ARNs of the remote revisions, written family:revision
RemoteArns ==
    { <<"s", ":", "7">>, <<"s", ":", "9">>, <<"s", ":", "1", "2">>, <<"s", ":", "2", "0">>,
      <<"o", ":", "3", "0">> }

ArnFamily(arn) == RsplitHead(arn, ":")

RemoteVersions  == {Ver_122, Ver_124, Ver_1212, Ver_1213, Ver_130}
RequestFamilies == { <<"s">>, <<"o">> }
RequestVersions == {Ver_123, Ver_130}

\* a revision is registered remotely with its Family and ModuleVersion tags;
\* an answer obtained earlier is for the remote state of its time
TagRevision ==
    /\ Cardinality(remote) < MaxRemote
    /\ \E arn \in RemoteArns, v \in RemoteVersions :
         /\ \A r \in remote : r.arn # arn
         /\ remote' = remote \cup {[arn |-> arn, Family |-> ArnFamily(arn), ModuleVersion |-> v]}
    /\ resolved' = NoResolution
    /\ UNCHANGED <<tdVars, last, requires_attributes, additional_properties, diffed, sent,
                   tasks, deployed>>

\* get_task_definition_filtered: get_task_definition (one remote describe)
\* runs twice on the first sorted ARN; a ClientError of the describe becomes
\* UnknownTaskDefinitionError(str(e)).  named is what the message of the
\* error names: f'Task not found [Family={family}, ModuleVersion={module_version}]'
GetTaskDefinitionFiltered ==
    /\ \E family \in RequestFamilies, module_version \in RequestVersions :
         LET task_definition_arns ==
               get_resources(remote, family, compatible_module_versions(module_version))
         IN  IF task_definition_arns # {}
             THEN \E arn \in FirstSorted(task_definition_arns), failing \in 0..2 :
                    resolved' =
                      [status |-> IF failing = 0 THEN "ok" ELSE "UnknownTaskDefinitionError",
                       arn |-> IF failing = 0 THEN arn ELSE <<>>,
                       family |-> family, module_version |-> module_version,
                       describes |-> IF failing = 1 THEN 1 ELSE 2,
                       named |-> <<>>]
             ELSE resolved' =
                    [status |-> "UnknownTaskDefinitionError", arn |-> <<>>,
                     family |-> family, module_version |-> module_version, describes |-> 0,
                     named |-> <<family, module_version>>]
    /\ UNCHANGED <<tdVars, last, remote, requires_attributes, additional_properties, diffed, sent,
                   tasks, deployed>>

InitResolver ==
    /\ InitTaskDefinition
    /\ last = NoCall
    /\ tasks = <<>>
    /\ deployed = NotAsked
    /\ remote = {}
    /\ resolved = NoResolution

NextResolver ==
    \/ TagRevision
    \/ GetTaskDefinitionFiltered

SpecResolver == InitResolver /\ [][NextResolver]_vars

\* ======================================================================
\* Properties of the setters and of get_overrides, checked under Spec
\* ======================================================================
ContainerSetters == {"set_images", "set_commands", "set_environment", "set_secrets"}

\* the container names a call addresses
Named(call) ==
    {call.kw[i][1] : i \in 1..Len(call.kw)} \cup {call.triples[i][1] : i \in 1..Len(call.triples)}

\* the records a step appends to the change log
Appended == SubSeq(_diff', Len(_diff) + 1, Len(_diff'))

\* the change log after a step extends the change log before it
LogExtended == Len(_diff') >= Len(_diff) /\ SubSeq(_diff', 1, Len(_diff)) = _diff

\* C1: a container-addressed setter whose input names a container absent
\* from the definition fails with UnknownContainerError and leaves the
\* containers, roles, tags and change log as they were, also when the same
\* call names existing containers.
C1_UnknownContainerAtomic ==
    [][ (last'.op \in ContainerSetters /\ ~(Named(last') \subseteq container_names(containers)))
        => (last'.err = "UnknownContainerError" /\ UNCHANGED tdVars) ]_vars

\* a failed call that named an existing container next to the unknown one,
\* on a definition that already has a change log
C1_Witness ==
    /\ last.op \in ContainerSetters
    /\ last.err = "UnknownContainerError"
    /\ Named(last) \cap container_names(containers) # {}
    /\ _diff # <<>>

\* C2: a successful call with a non-empty input that leaves every field of
\* the definition at its current value appends no ChangeRecord.
C2_NoRecordWhenUnchanged ==
    [][ (last'.err = "ok" /\ last'.op # "none"
         /\ <<containers, role_arn, execution_role_arn, tags>>'
              = <<containers, role_arn, execution_role_arn, tags>>)
        => _diff' = _diff ]_vars

\* the containers that have records in a change log
LoggedContainers(d) == {d[i].container : i \in 1..Len(d)} \ {NoContainer}

OverrideFields == {"command", "environment", "secrets"}

\* C4: an override entry holds, besides the name, only those of command /
\* environment / secrets for which the change log has a record for that
\* container; a log with only an image record for A gives the single entry
\* {name: A}.
C4_OnlyLoggedFields ==
    LET o == get_overrides(_diff)
    IN  o.ok =>
          /\ \A i \in 1..Len(o.overrides) :
               /\ DOMAIN o.overrides[i] \subseteq {"name"} \cup OverrideFields
               /\ \A f \in OverrideFields \cap DOMAIN o.overrides[i] :
                    \E k \in 1..Len(_diff) :
                       _diff[k].container = o.overrides[i].name /\ _diff[k].field = f
          /\ (Len(_diff) = 1 /\ _diff[1].field = "image")
               => o.overrides = <<[name |-> _diff[1].container]>>

\* the change log is a single image record for container A
C4_Witness ==
    /\ Len(_diff) = 1
    /\ _diff[1].field = "image"
    /\ _diff[1].container = "A"
    /\ get_overrides(_diff).overrides = <<[name |-> "A"]>>

\* a list of pairs as the set of <<name, value>> it stands for
PairsOfEnv(l)     == {<<l[i].name, l[i].value>> : i \in 1..Len(l)}
PairsOfSecrets(l) == {<<l[i].name, l[i].valueFrom>> : i \in 1..Len(l)}

\* the mapping N a call supplies for container c: the last triple given for
\* a key decides
NewMapping(triples, c) ==
    {<<triples[i][2], triples[i][3]>> : i \in
       {i \in 1..Len(triples) :
          /\ triples[i][1] = c
          /\ \A j \in (i + 1)..Len(triples) :
               ~(triples[j][1] = c /\ triples[j][2] = triples[i][2])}}

KeysOf(m) == {p[1] : p \in m}

\* E overridden by N, or N alone
ExpectedMapping(E, N, exclusive) ==
    IF exclusive THEN N ELSE N \cup {p \in E : p[1] \notin KeysOf(N)}

\* C5: after a successful set_environment / set_secrets, a container named
\* in the input holds E overridden by N when exclusive is false and exactly
\* N when exclusive is true, each key once.
C5_MergePolicy ==
    [][ \A i \in 1..Len(containers) :
          (last'.err = "ok" /\ containers[i].name \in Named(last')) =>
            /\ last'.op = "set_environment" =>
                 /\ PairsOfEnv(containers'[i].environment)
                      = ExpectedMapping(PairsOfEnv(containers[i].environment),
                                        NewMapping(last'.triples, containers[i].name),
                                        last'.exclusive)
                 /\ Cardinality(KeysOf(PairsOfEnv(containers'[i].environment)))
                      = Len(containers'[i].environment)
            /\ last'.op = "set_secrets" =>
                 /\ PairsOfSecrets(containers'[i].secrets)
                      = ExpectedMapping(PairsOfSecrets(containers[i].secrets),
                                        NewMapping(last'.triples, containers[i].name),
                                        last'.exclusive)
                 /\ Cardinality(KeysOf(PairsOfSecrets(containers'[i].secrets)))
                      = Len(containers'[i].secrets) ]_vars

\* {a:1, b:2} merged with {b:3, c:4}, exclusive=false, gave {a:1, b:3, c:4}
C5_Witness ==
    /\ last.op = "set_environment" /\ last.err = "ok" /\ ~last.exclusive
    /\ last.triples = << <<"A", "b", "3">>, <<"A", "c", "4">> >>
    /\ PairsOfEnv(containers[1].environment) = {<<"a", "1">>, <<"b", "3">>, <<"c", "4">>}
    /\ _diff[Len(_diff)].old_value.map = << <<"a", "1">>, <<"b", "2">> >>

\* C6: a successful exclusive set_environment / set_secrets empties the
\* mapping of every container not named in the input and appends a record
\* for each of them whose mapping was non-empty; a non-exclusive call leaves
\* those containers as they were, without a record.
C6_ExclusiveClearsUnnamed ==
    [][ \A i \in 1..Len(containers) :
          (last'.op \in {"set_environment", "set_secrets"} /\ last'.err = "ok"
           /\ containers[i].name \notin Named(last')) =>
            LET isEnv  == last'.op = "set_environment"
                before == IF isEnv THEN PairsOfEnv(containers[i].environment)
                          ELSE PairsOfSecrets(containers[i].secrets)
                after  == IF isEnv THEN PairsOfEnv(containers'[i].environment)
                          ELSE PairsOfSecrets(containers'[i].secrets)
                field  == IF isEnv THEN "environment" ELSE "secrets"
                recs   == {k \in 1..Len(Appended) : Appended[k].container = containers[i].name}
            IN  /\ LogExtended
                /\ IF last'.exclusive
                   THEN /\ after = {}
                        /\ IF before # {}
                           THEN \E k \in recs : /\ recs = {k}
                                                /\ Appended[k].field = field
                                                /\ Appended[k].value = VMap(<<>>)
                           ELSE recs = {}
                   ELSE /\ containers'[i] = containers[i]
                        /\ recs = {} ]_vars

\* an exclusive set_environment that named only A emptied B's environment
\* and logged it
C6_Witness ==
    /\ last.op = "set_environment" /\ last.err = "ok" /\ last.exclusive
    /\ Named(last) = {"A"}
    /\ containers[2].environment = <<>>
    /\ \E k \in 1..Len(_diff) :
          /\ _diff[k].container = "B" /\ _diff[k].field = "environment"
          /\ _diff[k].old_value.map # <<>>

\* C7: a set_commands call that fails on a malformed JSON list leaves every
\* container's command and the change log as they were.
C7_CommandFailureAtomic ==
    [][ (last'.op = "set_commands" /\ last'.err = "EcsTaskDefinitionCommandError")
        => UNCHANGED <<containers, _diff>> ]_vars

\* s has character c
Has(s, c) == \E i \in 1..Len(s) : s[i] = c

\* t is s without its leading and trailing blanks
IsStripped(s, t) ==
    /\ (t # <<>> => t[1] # " " /\ t[Len(t)] # " ")
    /\ \E n \in 0..Len(s), m \in 0..Len(s) :
          /\ n + m + Len(t) = Len(s)
          /\ \A j \in 1..n : s[j] = " "
          /\ \A j \in 1..m : s[Len(s) + 1 - j] = " "
          /\ SubSeq(s, n + 1, n + Len(t)) = t

\* new is old with the part after its last ':' replaced by t
TagReplaced(old, new, t) ==
    \E k \in 1..Len(old) :
       /\ old[k] = ":"
       /\ \A j \in (k + 1)..Len(old) : old[j] # ":"
       /\ new = SubSeq(old, 1, k) \o t

\* C8 as stated: a named container gets the supplied image; a container not
\* named gets, with a global tag, its image with the part after the last
\* ':' replaced by the tag, and keeps its image without a tag.
C8_ImagesAsStated ==
    [][ \A i \in 1..Len(containers) :
          (last'.op = "set_images" /\ last'.err = "ok") =>
            IF containers[i].name \in Named(last')
            THEN containers'[i].image = DictGet(last'.kw, containers[i].name)
            ELSE IF last'.tag = EmptyStr
                 THEN containers'[i].image = containers[i].image
                 ELSE Has(containers[i].image, ":")
                        => TagReplaced(containers[i].image, containers'[i].image, last'.tag)
      ]_vars

\* C8 amended: as C8, with the tag stripped of surrounding blanks, and an
\* image without ':' getting ':' and the stripped tag appended.
C8_ImagesStripped ==
    [][ \A i \in 1..Len(containers) :
          (last'.op = "set_images" /\ last'.err = "ok") =>
            IF containers[i].name \in Named(last')
            THEN containers'[i].image = DictGet(last'.kw, containers[i].name)
            ELSE IF last'.tag = EmptyStr
                 THEN containers'[i].image = containers[i].image
                 ELSE \E n \in 0..Len(last'.tag), m \in 0..Len(last'.tag) :
                        LET t == SubSeq(last'.tag, n + 1, Len(last'.tag) - m)
                        IN  /\ IsStripped(last'.tag, t)
                            /\ IF Has(containers[i].image, ":")
                               THEN TagReplaced(containers[i].image, containers'[i].image, t)
                               ELSE containers'[i].image = containers[i].image \o <<":">> \o t
      ]_vars

\* a call with a blank-padded global tag and an explicit image for B:
\* r:1 became r:2 for A, B got the explicit image
C8_Witness ==
    /\ last.op = "set_images" /\ last.err = "ok"
    /\ last.tag = Str_2pad
    /\ last.kw = << <<"B", Str_r2>> >>
    /\ containers[1].image = Str_r2
    /\ containers[2].image = Str_r2
    /\ _diff[1].old_value = VStr(Str_r1)

\* C9: set_images with only a global tag, called a second time with the
\* same tag, appends no record and changes no image.
C9_TagReapplied ==
    [][ (last'.op = "set_images" /\ last'.repeat /\ last'.kw = <<>> /\ last'.tag # EmptyStr)
        => (_diff' = _diff /\ containers' = containers) ]_vars

\* the same global tag was applied twice and the first call had changed
\* images
C9_Witness ==
    /\ last.op = "set_images" /\ last.repeat /\ last.kw = <<>> /\ last.tag # EmptyStr
    /\ \E k \in 1..Len(_diff) : _diff[k].field = "image"
    /\ \A i \in 1..Len(containers) :
          containers[i].image = RsplitHead(containers[i].image, ":") \o <<":", "2">>

\* C13: the change log is empty at construction and every setter call
\* leaves the change log it found as a prefix of the new one.
C13_AppendOnly == (_diff = <<>>) /\ [][LogExtended]_vars

\* two role changes have been recorded one after the other
C13_Witness ==
    /\ last.op = "set_role_arn"
    /\ Len(_diff) >= 2
    /\ _diff[Len(_diff)].field = "role_arn"
    /\ _diff[Len(_diff) - 1].field = "role_arn"
    /\ _diff[Len(_diff)].value # _diff[Len(_diff) - 1].value

\* the number of tags with a key
TagCount(ts, key) == Cardinality({i \in 1..Len(ts) : ts[i].key = key})

\* C14: set_tag with non-empty key and value succeeds on every task
\* definition, also one built without a tag list: a tag with another value
\* is updated with one record, a tag with the same value is left alone
\* without a record, a missing tag is appended with one record; afterwards
\* get_tag gives the value and the number of tags with the key has not
\* grown, or is 1 if it was 0.
C14_SetTag ==
    [][ (last'.op = "set_tag" /\ last'.key # "" /\ last'.str # EmptyStr) =>
          /\ last'.err = "ok"
          /\ get_tag(tags', last'.key) = VStr(last'.str)
          /\ TagCount(tags', last'.key) = (IF TagCount(tags, last'.key) = 0 THEN 1
                                           ELSE TagCount(tags, last'.key))
          /\ LogExtended
          /\ IF get_tag(tags, last'.key) = VStr(last'.str)
             THEN tags' = tags /\ _diff' = _diff
             ELSE Len(Appended) = 1 ]_vars

\* C15: set_role_arn / set_execution_role_arn replace the role and append
\* exactly one record if and only if the new value is non-empty and differs
\* from the current role; otherwise role and change log are unchanged.
C15_RoleReplacedIffChanged ==
    [][ /\ last'.op = "set_role_arn" =>
             IF last'.str # EmptyStr /\ last'.str # role_arn
             THEN role_arn' = last'.str /\ LogExtended /\ Len(Appended) = 1
             ELSE role_arn' = role_arn /\ _diff' = _diff
        /\ last'.op = "set_execution_role_arn" =>
             IF last'.str # EmptyStr /\ last'.str # execution_role_arn
             THEN execution_role_arn' = last'.str /\ LogExtended /\ Len(Appended) = 1
             ELSE execution_role_arn' = execution_role_arn /\ _diff' = _diff ]_vars

\* the index of the container with a name
IndexOf(cs, name) == CHOOSE i \in 1..Len(cs) : cs[i].name = name

\* C16: one setter call appends at most one record per container and
\* field; the record of a set_environment / set_secrets call carries the
\* container's full mapping after the call as value and its full mapping
\* before the call as oldValue.
C16_OneRecordPerField ==
    [][ /\ LogExtended
        /\ \A j, k \in 1..Len(Appended) :
             (Appended[j].container = Appended[k].container
              /\ Appended[j].field = Appended[k].field) => j = k
        /\ \A k \in 1..Len(Appended) :
             LET rec == Appended[k]
                 i   == IndexOf(containers, rec.container)
             IN  /\ last'.op = "set_environment" =>
                      /\ rec.field = "environment"
                      /\ rec.value.kind = "map" /\ rec.old_value.kind = "map"
                      /\ Range(rec.value.map) = PairsOfEnv(containers'[i].environment)
                      /\ Range(rec.old_value.map) = PairsOfEnv(containers[i].environment)
                 /\ last'.op = "set_secrets" =>
                      /\ rec.field = "secrets"
                      /\ rec.value.kind = "map" /\ rec.old_value.kind = "map"
                      /\ Range(rec.value.map) = PairsOfSecrets(containers'[i].secrets)
                      /\ Range(rec.old_value.map) = PairsOfSecrets(containers[i].secrets) ]_vars

\* one set_environment call changed b and added c on container A: its one
\* record carries a, b and c as value and a, b as oldValue
C16_Witness ==
    /\ last.op = "set_environment" /\ last.err = "ok"
    /\ last.triples = << <<"A", "b", "3">>, <<"A", "c", "4">> >>
    /\ Cardinality({k \in 1..Len(_diff) : _diff[k].container = "A"
                                          /\ _diff[k].field = "environment"}) = 1
    /\ \E k \in 1..Len(_diff) :
          /\ _diff[k].container = "A" /\ _diff[k].field = "environment"
          /\ Range(_diff[k].value.map) = {<<"a", "1">>, <<"b", "3">>, <<"c", "4">>}
          /\ Range(_diff[k].old_value.map) = {<<"a", "1">>, <<"b", "2">>}

\* the record value v is the value of the field that record rec addresses,
\* in a definition with containers cs, roles role and exec, and tags ts
IsFieldValue(v, rec, cs, role, exec, ts) ==
    IF rec.field = "image"
    THEN v = VStr(cs[IndexOf(cs, rec.container)].image)
    ELSE IF rec.field = "command"
    THEN v = GetCommand(cs[IndexOf(cs, rec.container)])
    ELSE IF rec.field = "environment"
    THEN v.kind = "map"
         /\ Range(v.map) = PairsOfEnv(cs[IndexOf(cs, rec.container)].environment)
    ELSE IF rec.field = "secrets"
    THEN v.kind = "map"
         /\ Range(v.map) = PairsOfSecrets(cs[IndexOf(cs, rec.container)].secrets)
    ELSE IF rec.field = "role_arn"
    THEN v = VStr(role)
    ELSE IF rec.field = "execution_role_arn"
    THEN v = VStr(exec)
    ELSE \E key \in TagKeyInputs : rec.field = TagField(key) /\ v = get_tag(ts, key)

\* C20: every record a successful setter call appends has as oldValue the value of its
\* field before the call and as value the value of its field after the
\* call, in the representation the definition holds it in.
C20_RecordsMatchField ==
    [][ \A k \in 1..Len(Appended) :
          last'.err = "ok" =>
          /\ IsFieldValue(Appended[k].old_value, Appended[k],
                          containers, role_arn, execution_role_arn, tags)
          /\ IsFieldValue(Appended[k].value, Appended[k],
                          containers', role_arn', execution_role_arn', tags') ]_vars

\* the fields of the definition the setters write
DefinitionFields == <<containers, role_arn, execution_role_arn, tags>>

\* C21: no mutation is silent.  Every setter call, successful or failed,
\* that changes a container's image, command, environment or secrets, a
\* role ARN or a tag appends at least one record to the change log; so a
\* definition whose change log is empty holds the values of construction.
C21_NoSilentMutation ==
    [][DefinitionFields' # DefinitionFields => Len(_diff') > Len(_diff)]_vars

\* a failed set_commands call has given A its new command before failing
\* on B, and the log holds the records of both
C21_Witness ==
    /\ last.op = "set_commands" /\ last.err = "EcsTaskDefinitionCommandError"
    /\ containers[1].hasCommand /\ containers[1].command = <<<<"e">>, <<"h">>>>
    /\ ~containers[2].hasCommand
    /\ Len(_diff) = 2 /\ _diff[1].container = "A" /\ _diff[2].container = "B"

\* the change log holds no record left by a failed set_commands call: the
\* states that successful setter calls alone reach
OnlySuccessfulRecords == get_overrides(_diff).ok

\* C22: after successful setter calls every entry of get_overrides() names
\* a container of the task definition; role and tag records never produce
\* an entry, in particular none without a name.
C22_OverridesNameContainers ==
    OnlySuccessfulRecords =>
      \A i \in 1..Len(get_overrides(_diff).overrides) :
         get_overrides(_diff).overrides[i].name \in container_names(containers)

\* the index of the last entry of the overrides that names the container
LastEntryOf(ovs, name) ==
    CHOOSE e \in 1..Len(ovs) :
       ovs[e].name = name /\ \A j \in (e + 1)..Len(ovs) : ovs[j].name # name

\* the entry carries the field with the value the container holds
CarriesCurrent(entry, c, f) ==
    /\ f \in DOMAIN entry
    /\ CASE f = "command"     -> entry[f] = c.command
          [] f = "environment" -> PairsOfEnv(entry[f]) = PairsOfEnv(c.environment)
          [] f = "secrets"     -> PairsOfSecrets(entry[f]) = PairsOfSecrets(c.secrets)

\* C23: after successful setter calls the overrides agree with the
\* definition: for every container and every field among command,
\* environment and secrets with a record in the change log, the last
\* override entry of that container carries the field's current value.
C23_OverridesAgree ==
    OnlySuccessfulRecords =>
      \A i \in 1..Len(containers), f \in OverrideFields :
         (\E k \in 1..Len(_diff) :
             _diff[k].container = containers[i].name /\ _diff[k].field = f)
         => CarriesCurrent(
              get_overrides(_diff).overrides[
                 LastEntryOf(get_overrides(_diff).overrides, containers[i].name)],
              containers[i], f)

\* ======================================================================
\* Properties of diff_raw, under SpecDiff
\* ======================================================================

\* the step is a diff_raw call against a definition that differs from self
\* in the order of a list only
OrderOnlyDiff == diffed'.op = "diff_raw" /\ diffed'.variant \in OrderVariants

\* C17: diff_raw is order-insensitive.  Whenever a task definition is
\* compared with one that differs from it only in the order of the
\* containers' environment lists, of their secrets lists or of
\* requiresAttributes, diff_raw returns an empty diff.
C17_OrderInsensitive ==
    [][OrderOnlyDiff => (diffed'.err = "ok" /\ diffed'.result = {})]_vars

\* C19: diff_raw is read-only.  A diff_raw call leaves the containers of
\* both task definitions as they were: environment and secrets stay in the
\* form they had (list of pairs, or no key).
C19_DiffReadOnly ==
    [][diffed'.op = "diff_raw"
         => (containers' = containers /\ diffed'.b_out = diffed'.b_in)]_vars

\* ======================================================================
\* Properties of register and run, under SpecActions
\* ======================================================================

\* C12: a run with launch type FARGATE and an empty subnet list or an empty
\* security-group list fails with TaskPlacementError without any remote
\* run-task call; every other run issues exactly one remote run-task call.
C12_PlacementCheckedBeforeCall ==
    [][sent'.op = "run" =>
         IF sent'.launchtype = "FARGATE"
            /\ (sent'.subnets = <<>> \/ sent'.security_groups = <<>>)
         THEN sent'.err = "TaskPlacementError" /\ sent'.run_task_calls = 0
         ELSE sent'.run_task_calls = 1]_vars

\* C18: handing a task definition to register or to run does not modify
\* it: containers, roles, tags, additional_properties and the change log
\* are the same after the call as before.
C18_HandedOverUnmodified ==
    [][sent'.op \in {"register", "run"} =>
         UNCHANGED <<containers, role_arn, execution_role_arn, tags, tagsIsNone,
                     additional_properties, _diff>>]_vars

\* ======================================================================
\* Properties of get_task_definition_filtered, checked under SpecResolver
\* ======================================================================
\* the tagged revision r is of the family and its version lies in the
\* window MAJOR.MINOR.PATCH .. MAJOR.MINOR.(PATCH+9) of the request
InWindow(r, family, module_version) ==
    /\ r.Family = family
    /\ RsplitHead(r.ModuleVersion, ".") = RsplitHead(module_version, ".")
    /\ StrToInt(RsplitTail(r.ModuleVersion, ".")) >= StrToInt(RsplitTail(module_version, "."))
    /\ StrToInt(RsplitTail(r.ModuleVersion, ".")) <= StrToInt(RsplitTail(module_version, ".")) + 9

\* C10: the task definition returned for a family and version is a remote
\* revision tagged with that family and a version in the ten-value window,
\* and no such revision has a numerically higher revision number.
C10_HighestRevisionInWindow ==
    resolved.status = "ok" =>
      /\ \E r \in remote : r.arn = resolved.arn
                           /\ InWindow(r, resolved.family, resolved.module_version)
      /\ \A r \in remote :
           InWindow(r, resolved.family, resolved.module_version)
             => StrToInt(RsplitTail(r.arn, ":")) <= StrToInt(RsplitTail(resolved.arn, ":"))

\* revision 12 is returned for 1.2.3 although revision 9 is in the window
\* and revision 20 is tagged 1.3.0
C10_Witness ==
    /\ resolved.status = "ok"
    /\ resolved.module_version = Ver_123
    /\ resolved.arn = <<"s", ":", "1", "2">>
    /\ \E r \in remote : r.arn = <<"s", ":", "9">> /\ r.ModuleVersion = Ver_124
    /\ \E r \in remote : r.arn = <<"s", ":", "2", "0">> /\ r.ModuleVersion = Ver_130

\* the tagging service has a revision for the request
HasMatch == \E r \in remote : InWindow(r, resolved.family, resolved.module_version)

\* C11 as stated: the resolver fails with UnknownTaskDefinitionError exactly
\* when the tagging service has no revision of the family in the window;
\* the error names the family and the requested version and no describe
\* call is issued.
C11_FailsExactlyWhenNoMatch ==
    resolved.status # "none" =>
      /\ resolved.status = "UnknownTaskDefinitionError" <=> ~HasMatch
      /\ resolved.status = "UnknownTaskDefinitionError"
           => (resolved.named = <<resolved.family, resolved.module_version>>
               /\ resolved.describes = 0)

\* C11 amended: without a match the resolver fails with
\* UnknownTaskDefinitionError naming the family and the requested version
\* and issues no describe call; with a match a describe call is issued, and
\* an UnknownTaskDefinitionError then comes from a failed describe call and
\* names neither.
C11_NotFoundWhenNoMatch ==
    resolved.status # "none" =>
      IF HasMatch
      THEN /\ resolved.describes > 0
           /\ resolved.status = "UnknownTaskDefinitionError" => resolved.named = <<>>
      ELSE /\ resolved.status = "UnknownTaskDefinitionError"
           /\ resolved.named = <<resolved.family, resolved.module_version>>
           /\ resolved.describes = 0

\* the request 1.2.3 found nothing although the family has revisions
\* tagged 1.2.13 and 1.3.0, and another family has one tagged 1.2.4
C11_Witness ==
    /\ resolved.status = "UnknownTaskDefinitionError"
    /\ resolved.family = <<"s">> /\ resolved.module_version = Ver_123
    /\ resolved.named = << <<"s">>, Ver_123 >>
    /\ resolved.describes = 0
    /\ \E r \in remote : r.Family = <<"s">> /\ r.ModuleVersion = Ver_1213
    /\ \E r \in remote : r.Family = <<"s">> /\ r.ModuleVersion = Ver_130
    /\ \E r \in remote : r.Family = <<"o">> /\ r.ModuleVersion = Ver_124

\* ======================================================================
\* Properties of is_deployed, under SpecService
\* ======================================================================

\* the number of listed tasks that are RUNNING on the service's current
\* task definition, with the tasks as the remote side describes them
RunningOnCurrent(service, taskArns, ts) ==
    Cardinality({k \in 1..Len(taskArns) :
                   /\ ts[taskArns[k]].lastStatus = "RUNNING"
                   /\ ts[taskArns[k]].taskDefinitionArn = service.taskDefinition})

\* an is_deployed call returns in this step
Returns == deployed.pc # "done" /\ deployed'.pc = "done"

\* C24: is_deployed returns true if and only if the service has exactly
\* one deployment and the number of listed tasks that are RUNNING and whose
\* task-definition ARN is the service's current one equals the desired
\* count (0 when no task is listed); tasks of another revision or not
\* RUNNING are never counted.
C24_IsDeployed ==
    [][Returns =>
         (deployed'.result <=>
            /\ deployed'.service.deployments = 1
            /\ RunningOnCurrent(deployed'.service, deployed'.taskArns, tasks)
                 = deployed'.service.desiredCount)]_vars

\* is_deployed has returned true for a desired count of 1 with two tasks
\* listed and RUNNING, one of them on an older revision
C24_Witness ==
    /\ deployed.pc = "done" /\ deployed.result
    /\ deployed.service.deployments = 1 /\ deployed.service.desiredCount = 1
    /\ deployed.taskArns = <<1, 2>>
    /\ tasks = <<[taskDefinitionArn |-> "td:1", lastStatus |-> "RUNNING"],
                 [taskDefinitionArn |-> "td:2", lastStatus |-> "RUNNING"]>>

====
